---- MODULE Spec2Model ----
(***************************************************************************)
(* Model of pkgrank's mergeable graph (package graph: Edge, Graph.AddEdge, *)
(* Graph.Add) and of the depgraph analyzer's driving loop (run).           *)
(*                                                                         *)
(* Edges are Go pointers to edge structs: a Graph's Edges map holds        *)
(* pointers into a heap of edge objects, so one object may be held by      *)
(* several graphs. A pointer is named by the constructor call that made the*)
(* object and the number of that call among the calls with the same        *)
(* arguments.                                                              *)
(***************************************************************************)
EXTENDS Integers, Sequences, FiniteSets, TLC

\* ---------------------------------------------------------------- bounds
MaxObj == 4        \* edge objects constructed in the fragment-merge model
MaxEdgeObj == 3    \* edge objects constructed in the edge-insertion model
MaxImports == 2    \* direct imports of one unit in the analyzer model
MaxCopies == 2     \* objects constructed with the same constructor arguments
MaxWeight == 4     \* weights above this are not explored
MaxCalls == 3      \* AddNode and UpdateEdge calls on the ImportGraph

\* ------------------------------------------------------------ edge model
EdgeTypeBase == 0
EdgeTypeDirected == 1
EdgeTypeUndirected == 2
EdgeTypeHyper == 3

EdgeKey(container, id) == [container |-> container, id |-> id]

\* Go's byte-wise string order on the node identifiers used as inputs.
IDOrder == <<"", "A", "A->B", "B", "C">>

StrRank(s) == CHOOSE i \in 1..Len(IDOrder) : IDOrder[i] = s

RECURSIVE InsertSorted(_, _)
InsertSorted(sorted, s) ==
    IF sorted = <<>> THEN <<s>>
    ELSE IF StrRank(s) < StrRank(Head(sorted)) THEN <<s>> \o sorted
    ELSE <<Head(sorted)>> \o InsertSorted(Tail(sorted), s)

RECURSIVE SortStrings(_)
SortStrings(ids) ==
    IF ids = <<>> THEN <<>>
    ELSE InsertSorted(SortStrings(Tail(ids)), Head(ids))

RECURSIVE Join(_, _)
Join(ids, sep) ==
    IF ids = <<>> THEN ""
    ELSE IF Len(ids) = 1 THEN ids[1]
    ELSE ids[1] \o sep \o Join(Tail(ids), sep)

\* &BaseEdge{EdgeKey: ..., EdgeWeight: w}: the abstract variant, a struct literal.
BaseEdge(container, id, w) ==
    [type |-> EdgeTypeBase, EdgeKey |-> EdgeKey(container, id),
     EdgeWeight |-> w, nodes |-> <<>>]

NewDirectedEdge(container, srcID, dstID) ==
    [type |-> EdgeTypeDirected,
     EdgeKey |-> EdgeKey(container, srcID \o "->" \o dstID),
     EdgeWeight |-> 1, nodes |-> <<srcID, dstID>>]

\* EdgeWeight is not set by this constructor: Go's zero value.
NewUndirectedEdge(container, leftID, rightID) ==
    [type |-> EdgeTypeUndirected,
     EdgeKey |-> EdgeKey(container, leftID \o "~" \o rightID),
     EdgeWeight |-> 0, nodes |-> <<leftID, rightID>>]

\* EdgeWeight is not set by this constructor: Go's zero value.
NewHyperEdge(container, ids) ==
    [type |-> EdgeTypeHyper,
     EdgeKey |-> EdgeKey(container, Join(SortStrings(ids), ",")),
     EdgeWeight |-> 0, nodes |-> SortStrings(ids)]

\* Valid() = nil
Valid(e) ==
    IF e.type = EdgeTypeDirected THEN e.nodes[1] # "" /\ e.nodes[2] # ""
    ELSE IF e.type = EdgeTypeHyper THEN Len(e.nodes) > 0
    ELSE TRUE

\* ----------------------------------------------------------------- Graph
\* A Graph value. AddedContainers is a Go map: acNil says it is the nil map
\* (reads as empty, a write panics). Edges maps an EdgeKey to the pointer
\* stored under it; a nil Edges map reads as the empty one and AddEdge
\* allocates it before the first write. Nodes is never written.
Graph(container, acNil, added) ==
    [Container |-> container, acNil |-> acNil, AddedContainers |-> added,
     Nodes |-> {}, Edges |-> <<>>]

Order(f) == Cardinality(f.Nodes)

Size(f) == Cardinality(DOMAIN f.Edges)

\* f.Edges[key] = p
PutEdge(f, key, p) ==
    [f EXCEPT !.Edges = [k \in DOMAIN f.Edges \cup {key} |->
                            IF k = key THEN p ELSE f.Edges[k]]]

\* A merge that keeps the incoming weight: replacement, not accumulation.
MergeFuncReplace(h, prev, edge) ==
    IF h[edge].type = EdgeTypeDirected
    THEN [heap |-> h, status |-> "ok"]
    ELSE [heap |-> h, status |-> "fatal"]

\* DefaultAddEdgeOptions.MergeFunc(prev, edge): the weight of prev is added
\* into the incoming object; any variant but Directed is fatal.
MergeFunc(h, prev, edge) ==
    IF h[edge].type = EdgeTypeDirected
    THEN [heap |-> [h EXCEPT ![edge].EdgeWeight = @ + h[prev].EdgeWeight],
          status |-> "ok"]
    ELSE [heap |-> h, status |-> "fatal"]

\* No edge is turned away.
RejectedNever(e) == FALSE

\* An invalid edge is turned away as well.
RejectedOrInvalid(e) == e.type = EdgeTypeBase \/ ~Valid(e)

\* edge.EdgeType() == EdgeTypeBase: AddEdge returns false at once.
Rejected(e) == e.type = EdgeTypeBase

\* The variants of the stored and the incoming edge are not compared.
SameVariantAlways(prev, e) == TRUE

\* prev.EdgeType() == edge.EdgeType(); log.Fatal otherwise
SameVariant(prev, e) == prev.type = e.type

\* Graph.AddEdge(edge) with the default options. The result carries the
\* receiver, the heap, the returned bool, what was logged at error level and
\* whether the process went on ("ok") or log.Fatal ended it ("fatal").
AddEdge(f, h, edge) ==
    LET e == h[edge]
        key == e.EdgeKey
        logged == IF Valid(e) THEN "" ELSE "invalid"
    IN  IF Rejected(e)
        THEN [f |-> f, heap |-> h, ret |-> FALSE, logged |-> "base", status |-> "ok"]
        ELSE IF key \in DOMAIN f.Edges
        THEN IF ~SameVariant(h[f.Edges[key]], e)
             THEN [f |-> f, heap |-> h, ret |-> FALSE, logged |-> logged,
                   status |-> "fatal"]
             ELSE LET m == MergeFunc(h, f.Edges[key], edge)
                  IN  IF m.status # "ok"
                      THEN [f |-> f, heap |-> m.heap, ret |-> FALSE,
                            logged |-> logged, status |-> m.status]
                      ELSE [f |-> PutEdge(f, key, edge), heap |-> m.heap,
                            ret |-> TRUE, logged |-> logged, status |-> "ok"]
        ELSE [f |-> PutEdge(f, key, edge), heap |-> h, ret |-> FALSE,
              logged |-> logged, status |-> "ok"]

\* Every container of other is kept, folded in before or not.
KeepAll(f, other) == other.AddedContainers

\* The containers of other that the receiver has not folded in yet.
Keep(f, other) == other.AddedContainers \ f.AddedContainers

\* The merge is never cut short.
NothingNewNever(keep, other) == FALSE

\* len(keep) == 0 && len(other.AddedContainers) > 0
NothingNew(keep, other) == keep = {} /\ other.AddedContainers # {}

\* No edge of other is passed over.
SkipEdgeNever(e, keep, other) == FALSE

\* The edges of a bare fragment are passed over too.
SkipEdgeOfBare(e, keep, other) == e.EdgeKey.container \notin keep

\* Only the edges of the fragment's own container are taken.
SkipEdgeNotOwn(e, keep, other) ==
    e.EdgeKey.container # other.Container /\ other.AddedContainers # {}

\* _, ok := keep[edge.Key().container]; !ok && len(other.AddedContainers) > 0
SkipEdge(e, keep, other) ==
    e.EdgeKey.container \notin keep /\ other.AddedContainers # {}

\* The edge loop of Graph.Add, over other's edges in the order the map
\* iteration yields them; it ends with the process when AddEdge is fatal.
RECURSIVE AddLoop(_, _, _, _, _)
AddLoop(st, other, keep, order, i) ==
    IF i > Len(order) \/ st.status # "ok" THEN st
    ELSE LET edge == other.Edges[order[i]]
         IN  IF SkipEdge(st.heap[edge], keep, other)
             THEN AddLoop([st EXCEPT !.overlap = @ + 1], other, keep, order, i + 1)
             ELSE LET r == AddEdge(st.f, st.heap, edge)
                  IN  AddLoop([f |-> r.f, heap |-> r.heap,
                               overlap |-> st.overlap, status |-> r.status],
                              other, keep, order, i + 1)

\* Graph.Add without the bookkeeping of folded-in containers: every edge of
\* other is inserted.
AddNoDedup(f, other, h, order) ==
    LET keep == Keep(f, other)
    IN  IF keep # {} /\ f.acNil
        THEN [f |-> f, heap |-> h, ret |-> 0, status |-> "panic"]
        ELSE LET st == AddLoop([f |-> [f EXCEPT !.AddedContainers = @ \cup keep],
                                heap |-> h, overlap |-> 0, status |-> "ok"],
                               [other EXCEPT !.AddedContainers = {}], keep, order, 1)
             IN  [f |-> st.f, heap |-> st.heap, ret |-> st.overlap,
                  status |-> st.status]

\* Graph.Add(other) with the default options. A write to the receiver's nil
\* AddedContainers map panics at the first container to keep.
Add(f, other, h, order) ==
    LET keep == Keep(f, other)
    IN  IF keep # {} /\ f.acNil
        THEN [f |-> f, heap |-> h, ret |-> 0, status |-> "panic"]
        ELSE LET f1 == [f EXCEPT !.AddedContainers = @ \cup keep]
             IN  IF NothingNew(keep, other)
                 THEN [f |-> f1, heap |-> h, ret |-> -1, status |-> "ok"]
                 ELSE LET st == AddLoop([f |-> f1, heap |-> h, overlap |-> 0,
                                         status |-> "ok"], other, keep, order, 1)
                      IN  [f |-> st.f, heap |-> st.heap, ret |-> st.overlap,
                           status |-> st.status]

\* The orders in which a range over a map with these keys may yield them.
RECURSIVE Orders(_)
Orders(keys) ==
    IF keys = {} THEN {<<>>}
    ELSE UNION {{<<k>> \o o : o \in Orders(keys \ {k})} : k \in keys}

\* ------------------------------------------------------------ ImportGraph
\* f with the value v under the key k.
Put(f, k, v) == [x \in DOMAIN f \cup {k} |-> IF x = k THEN v ELSE f[x]]

\* NewImportGraph(): an empty weighted directed graph and two empty maps.
\* nodes are the ids of the nodes of g.g; edges maps <<from id, to id>> to
\* the weight of the edge g.g holds between the two.
NewImportGraph ==
    [nodes |-> {}, edges |-> <<>>, idToImport |-> <<>>, importToID |-> <<>>]

\* g.Len()
GraphLen(g) == Cardinality(g.nodes)

\* g.g.NewNode(): an id not in use, the one after the largest (no node is
\* ever removed).
NewNodeID(g) ==
    IF g.nodes = {} THEN 0
    ELSE 1 + CHOOSE m \in g.nodes : \A n \in g.nodes : n <= m

\* A node is made for the label whether or not it has one.
AddNodeAlways(g, imp) ==
    LET id == NewNodeID(g)
    IN  [g |-> [g EXCEPT !.nodes = @ \cup {id},
                         !.importToID = Put(@, imp, id),
                         !.idToImport = Put(@, id, imp)],
         id |-> id]

\* g.AddNode(imp): the graph afterwards and the id of the node returned.
AddNode(g, imp) ==
    IF imp \in DOMAIN g.importToID
    THEN [g |-> g, id |-> g.importToID[imp]]
    ELSE LET id == NewNodeID(g)
         IN  [g |-> [g EXCEPT !.nodes = @ \cup {id},
                              !.importToID = Put(@, imp, id),
                              !.idToImport = Put(@, id, imp)],
              id |-> id]

\* g.g.SetWeightedEdge(we): the edge replaces the one between the two nodes;
\* an edge from a node to itself panics.
SetWeightedEdge(g, e, w) ==
    IF e[1] = e[2]
    THEN [g |-> g, status |-> "panic"]
    ELSE [g |-> [g EXCEPT !.nodes = @ \cup {e[1], e[2]}, !.edges = Put(@, e, w)],
          status |-> "ok"]

\* g.UpdateEdge(imp1, imp2)
UpdateEdge(g, imp1, imp2) ==
    LET a1 == AddNode(g, imp1)
        a2 == AddNode(a1.g, imp2)
        e == <<a1.id, a2.id>>
        w == IF e \in DOMAIN a2.g.edges THEN a2.g.edges[e] + 1 ELSE 1
    IN  SetWeightedEdge(a2.g, e, w)

\* The float64 scores PageRank returns, as far as Centrality looks at them:
\* their order and their equality.
ScoreValues == 1..3

\* The comparison is turned around.
LessAscending(x, y) == x.score < y.score

\* The less function handed to sort.Slice.
Less(x, y) == x.score > y.score

Swap(data, i, j) ==
    [k \in DOMAIN data |-> IF k = i THEN data[j] ELSE IF k = j THEN data[i] ELSE data[k]]

\* The inner loop of the insertion sort sort.Slice runs on a slice of up to
\* 12 elements.
RECURSIVE SinkDown(_, _)
SinkDown(data, j) ==
    IF j > 1 /\ Less(data[j], data[j - 1])
    THEN SinkDown(Swap(data, j, j - 1), j - 1)
    ELSE data

RECURSIVE InsertionSort(_, _)
InsertionSort(data, i) ==
    IF i > Len(data) THEN data
    ELSE InsertionSort(SinkDown(data, i), i + 1)

SortSlice(data) == InsertionSort(data, 2)

\* The graph is taken to have nodes whatever its size.
EmptyGraphNever(g) == FALSE

\* g.Len() == 0
EmptyGraph(g) == GraphLen(g) = 0

\* g.Centrality(), given what network.PageRank returns (centrality, a score
\* for the id of every node) and the order in which the range over that map
\* yields the ids. ranked says PageRank was called.
Centrality(g, centrality, order) ==
    IF EmptyGraph(g)
    THEN [imps |-> <<>>, scores |-> <<>>, ranked |-> FALSE]
    ELSE LET sorted == SortSlice(
                 [i \in 1..Len(order) |->
                     [imp |-> IF order[i] \in DOMAIN g.idToImport
                              THEN g.idToImport[order[i]] ELSE "",
                      score |-> centrality[order[i]]]])
         IN  [imps |-> [i \in 1..Len(sorted) |-> sorted[i].imp],
              scores |-> [i \in 1..Len(sorted) |-> sorted[i].score],
              ranked |-> TRUE]

\* --------------------------------------------------- library state machine
VARIABLES
    heap,      \* pointer -> edge object
    G,         \* graph name -> Graph value
    status,    \* "ok", or how the process ended: "fatal" (log.Fatal), "panic"
    last,      \* the last call made: operation, arguments and results
    pkgImports,\* unit -> the units it imports directly (pass.Pkg.Imports())
    rootPkg,   \* DEPGRAPH_ROOT_PKG
    facts,     \* unit -> the graphFact exported for it
    out,       \* the lines printed for the root: <<src, dst>>
    ig,        \* the ImportGraph: gonum graph and the two label/id maps
    icalls,    \* history: the UpdateEdge calls made, the id first given to a label
    ilast      \* the last call on the ImportGraph and what it returned

vars == <<heap, G, status, last, pkgImports, rootPkg, facts, out, ig, icalls, ilast>>

libVars == <<heap, G, status, last>>

runVars == <<pkgImports, rootPkg, facts, out>>

igVars == <<ig, icalls, ilast>>

GraphNames == {"f", "g"}

\* The import paths handed to the ImportGraph.
Labels == {"a", "b", "c"}

Containers == {"", "X"}

\* Constructor calls offered to the model: container and node identifiers.
DirectedArgs ==
    {<<"", <<"A", "B">>>>, <<"", <<"B", "C">>>>, <<"", <<"A", "C">>>>,
     <<"X", <<"A", "B">>>>}

\* A directed edge with an empty destination: Valid() reports an error.
InvalidDirectedArgs == {<<"X", <<"A", "">>>>}

UndirectedArgs == {<<"X", <<"A", "B">>>>}

HyperArgs == {<<"", <<"A->B">>>>, <<"X", <<>>>>}

BaseArgs == {<<"", <<"A->B">>>>}

Ptr(ctor, args, n) == [ctor |-> ctor, container |-> args[1], ids |-> args[2], n |-> n]

NoPtr == Ptr("", <<"", <<>>>>, 0)

NoCall ==
    [op |-> "", recv |-> "", edge |-> NoPtr, other |-> "", existed |-> FALSE,
     overlap |-> 0, logged |-> "", visited |-> FALSE]

\* The pointer the next call of ctor with args returns.
FreshIn(h, ctor, args) ==
    Ptr(ctor, args,
        1 + Cardinality({p \in DOMAIN h : p.ctor = ctor /\ p.container = args[1]
                                          /\ p.ids = args[2]}))

Fresh(ctor, args) == FreshIn(heap, ctor, args)

\* The heap after a constructor call returned the object e at pointer p.
WithObject(h, p, e) ==
    [q \in DOMAIN h \cup {p} |-> IF q \in DOMAIN h THEN h[q] ELSE e]

CanAlloc(ctor, args, max) ==
    /\ status = "ok"
    /\ Cardinality(DOMAIN heap) < max
    /\ Fresh(ctor, args).n <= MaxCopies

Alloc(ctor, args, e) ==
    /\ CanAlloc(ctor, args, MaxEdgeObj)
    /\ heap' = WithObject(heap, Fresh(ctor, args), e)
    /\ last' = [NoCall EXCEPT !.op = ctor, !.edge = Fresh(ctor, args)]
    /\ UNCHANGED <<G, status, runVars, igVars>>

CallNewDirectedEdge(menu) ==
    \E a \in menu :
        Alloc("NewDirectedEdge", a, NewDirectedEdge(a[1], a[2][1], a[2][2]))

CallNewUndirectedEdge(menu) ==
    \E a \in menu :
        Alloc("NewUndirectedEdge", a, NewUndirectedEdge(a[1], a[2][1], a[2][2]))

CallNewHyperEdge(menu) ==
    \E a \in menu : Alloc("NewHyperEdge", a, NewHyperEdge(a[1], a[2]))

MakeBaseEdge(menu) ==
    \E a \in menu : Alloc("BaseEdge", a, BaseEdge(a[1], a[2][1], 1))

WithinWeight(h) == \A p \in DOMAIN h : h[p].EdgeWeight <= MaxWeight

CallAddEdge(recvs) ==
    \E n \in recvs, p \in DOMAIN heap :
        LET r == AddEdge(G[n], heap, p)
        IN  /\ status = "ok"
            /\ WithinWeight(r.heap)
            /\ G' = [G EXCEPT ![n] = r.f]
            /\ heap' = r.heap
            /\ status' = r.status
            /\ last' = [NoCall EXCEPT !.op = "AddEdge", !.recv = n, !.edge = p,
                                      !.existed = r.ret, !.logged = r.logged]
            /\ UNCHANGED <<runVars, igVars>>

CallAdd(recvs) ==
    \E n \in recvs, o \in GraphNames :
        /\ n # o
        /\ status = "ok"
        /\ \E order \in Orders(DOMAIN G[o].Edges) :
            LET r == Add(G[n], G[o], heap, order)
            IN  /\ WithinWeight(r.heap)
                /\ G' = [G EXCEPT ![n] = r.f]
                /\ heap' = r.heap
                /\ status' = r.status
                /\ last' = [NoCall EXCEPT !.op = "Add", !.recv = n, !.other = o,
                                          !.overlap = r.ret]
                /\ UNCHANGED <<runVars, igVars>>

\* f.AddEdge(graph.NewDirectedEdge(container, src, dst)): the caller hands the
\* new object straight to AddEdge, as the package's test and the analyzer do.
AddNewDirectedEdge(recvs, menu) ==
    \E n \in recvs, a \in menu :
        LET p == Fresh("NewDirectedEdge", a)
            h == WithObject(heap, p, NewDirectedEdge(a[1], a[2][1], a[2][2]))
            r == AddEdge(G[n], h, p)
        IN  /\ CanAlloc("NewDirectedEdge", a, MaxObj)
            /\ WithinWeight(r.heap)
            /\ G' = [G EXCEPT ![n] = r.f]
            /\ heap' = r.heap
            /\ status' = r.status
            /\ last' = [NoCall EXCEPT !.op = "AddEdge", !.recv = n, !.edge = p,
                                      !.existed = r.ret, !.logged = r.logged]
            /\ UNCHANGED <<runVars, igVars>>

\* The analyzer is not running in the library models.
NoRun ==
    /\ pkgImports = <<>>
    /\ rootPkg = ""
    /\ facts = <<>>
    /\ out = <<>>

NoICall ==
    [op |-> "", from |-> "", to |-> "", id |-> -1, imps |-> <<>>, scores |-> <<>>,
     centrality |-> <<>>, ranked |-> FALSE]

\* No call was made on the ImportGraph.
NoCalls == [n |-> 0, seen |-> {}, updates |-> <<>>, first |-> <<>>]

\* A new ImportGraph that is not used.
NoImport ==
    /\ ig = NewImportGraph
    /\ icalls = NoCalls
    /\ ilast = NoICall

\* A Graph is made by a struct literal: the zero value of the package's
\* test, or with an AddedContainers map as the analyzer builds it. The
\* receiver f has folded in nothing or its own container ""; g is bare or has
\* folded in "", "X" or both.
Init ==
    /\ NoRun
    /\ NoImport
    /\ heap = <<>>
    /\ \E gf \in {Graph("", TRUE, {}), Graph("", FALSE, {""})},
          gg \in {Graph("", TRUE, {})}
                     \cup {Graph("X", FALSE, a) : a \in SUBSET Containers \ {{}}} :
            G = [n \in GraphNames |-> IF n = "f" THEN gf ELSE gg]
    /\ status = "ok"
    /\ last = NoCall

Next ==
    \/ AddNewDirectedEdge(GraphNames, DirectedArgs)
    \/ CallAdd({"f"})

Spec == Init /\ [][Next]_vars

\* The zero-valued graphs of the package's test, and edges of every variant.
InitEdge ==
    /\ NoRun
    /\ NoImport
    /\ heap = <<>>
    /\ G = [n \in GraphNames |-> Graph("", TRUE, {})]
    /\ status = "ok"
    /\ last = NoCall

NextEdge ==
    \/ CallNewDirectedEdge({<<"", <<"A", "B">>>>} \cup InvalidDirectedArgs)
    \/ CallNewUndirectedEdge(UndirectedArgs)
    \/ CallNewHyperEdge(HyperArgs)
    \/ MakeBaseEdge(BaseArgs)
    \/ CallAddEdge(GraphNames)
    \/ CallAdd({"f"})

SpecEdge == InitEdge /\ [][NextEdge]_vars

\* ------------------------------------------------- analyzer state machine
Units == {"Root", "X", "Y", "Shared"}

UnitOrder == <<"Root", "X", "Y", "Shared">>

UnitRank(u) == CHOOSE i \in 1..Len(UnitOrder) : UnitOrder[i] = u

\* The acyclic import graphs: a unit imports units later in UnitOrder.
RECURSIVE GraphsFrom(_)
GraphsFrom(i) ==
    IF i > Len(UnitOrder) THEN {<<>>}
    ELSE LET later == {UnitOrder[j] : j \in (i + 1)..Len(UnitOrder)}
         IN  {[u \in DOMAIN m \cup {UnitOrder[i]} |->
                  IF u = UnitOrder[i] THEN ds ELSE m[u]] :
                  m \in GraphsFrom(i + 1),
                  ds \in {x \in SUBSET later : Cardinality(x) <= MaxImports}}

ImportGraphs == GraphsFrom(1)

\* The missing fact is reported and the loop left; the fragment built so far
\* goes on to be exported.
MissingFactIgnored(r) == [f |-> r.f, heap |-> r.heap, status |-> "ok"]

\* ImportPackageFact(dep, &g) = false: log.Fatal ends the process.
MissingFact(r) == [f |-> r.f, heap |-> r.heap, status |-> "fatal"]

\* The loop of run over pass.Pkg.Imports(): the unit's own edge to dep, then
\* the fact of dep folded in; a dep without a fact is fatal. fs are the
\* exported facts; an imported fact shares its maps and edge objects with
\* the exported one. ords[dep] is the order in which Add ranges over the
\* edges of dep's fact.
RECURSIVE RunLoop(_, _, _, _, _, _)
RunLoop(st, unit, deps, ords, fs, i) ==
    IF i > Len(deps) \/ st.status # "ok" THEN st
    ELSE LET dep == deps[i]
             p == FreshIn(st.heap, "NewDirectedEdge", <<unit, <<unit, dep>>>>)
             r1 == AddEdge(st.f, WithObject(st.heap, p, NewDirectedEdge(unit, unit, dep)), p)
         IN  IF r1.status # "ok"
             THEN [f |-> r1.f, heap |-> r1.heap, status |-> r1.status]
             ELSE IF dep \in DOMAIN fs
             THEN LET r2 == Add(r1.f, fs[dep], r1.heap, ords[dep])
                  IN  RunLoop([f |-> r2.f, heap |-> r2.heap, status |-> r2.status],
                              unit, deps, ords, fs, i + 1)
             ELSE MissingFact(r1)

\* The lines printed for the root's fragment, in the order the range over
\* f.Edges yields the edges; an edge that is not a DirectedEdge panics.
RECURSIVE Emit(_, _, _, _)
Emit(f, h, order, i) ==
    IF i > Len(order) THEN [lines |-> <<>>, status |-> "ok"]
    ELSE LET e == h[f.Edges[order[i]]]
         IN  IF e.type # EdgeTypeDirected
             THEN [lines |-> <<>>, status |-> "panic"]
             ELSE LET rest == Emit(f, h, order, i + 1)
                  IN  [lines |-> <<e.nodes>> \o rest.lines, status |-> rest.status]

\* The unit is processed whether or not it has a fact.
AlreadyVisitedNever(unit, fs) == FALSE

\* pass.ImportPackageFact(pass.Pkg, ...) at the head of run
AlreadyVisited(unit, fs) == unit \in DOMAIN fs

\* The iteration orders run may meet: one per fact it may fold in.
RECURSIVE OrdersOf(_, _)
OrdersOf(deps, fs) ==
    IF deps = {} THEN {<<>>}
    ELSE LET d == CHOOSE x \in deps : TRUE
             keys == IF d \in DOMAIN fs THEN DOMAIN fs[d].Edges ELSE {}
         IN  {[x \in DOMAIN o \cup {d} |-> IF x = d THEN od ELSE o[x]] :
                  o \in OrdersOf(deps \ {d}, fs), od \in Orders(keys)}

FactOrders(unit) == OrdersOf(pkgImports[unit], facts)

\* One analysis pass: run(pass) for the package unit.
RunUnit(unit) ==
    /\ status = "ok"
    /\ last' = [NoCall EXCEPT !.op = "run", !.recv = unit,
                              !.visited = AlreadyVisited(unit, facts)]
    /\ UNCHANGED <<G, pkgImports, rootPkg, igVars>>
    /\ IF AlreadyVisited(unit, facts)
       THEN UNCHANGED <<heap, status, facts, out>>
       ELSE \E deps \in Orders(pkgImports[unit]), ords \in FactOrders(unit) :
            LET st == RunLoop([f |-> Graph(unit, FALSE, {unit}), heap |-> heap,
                               status |-> "ok"], unit, deps, ords, facts, 1)
            IN  /\ \A p \in DOMAIN st.heap : p.n <= MaxCopies
                /\ heap' = st.heap
                /\ IF st.status # "ok"
                   THEN status' = st.status /\ UNCHANGED <<facts, out>>
                   ELSE /\ facts' = [u \in DOMAIN facts \cup {unit} |->
                                        IF u = unit THEN st.f ELSE facts[u]]
                        /\ IF unit = rootPkg
                           THEN \E order \in Orders(DOMAIN st.f.Edges) :
                                   LET em == Emit(st.f, st.heap, order, 1)
                                   IN  out' = out \o em.lines /\ status' = em.status
                           ELSE UNCHANGED <<out, status>>

\* The driver calls run for any package, in any order.
Run == \E unit \in Units : RunUnit(unit)

InitRun ==
    /\ NoImport
    /\ heap = <<>>
    /\ G = [n \in GraphNames |-> Graph("", TRUE, {})]
    /\ status = "ok"
    /\ last = NoCall
    /\ pkgImports \in ImportGraphs
    /\ rootPkg \in Units
    /\ facts = <<>>
    /\ out = <<>>

NextRun == Run

SpecRun == InitRun /\ [][NextRun]_vars

\* The driver's contract (the comment under log.Fatal): packages are visited
\* in dependency topological order, a unit after the facts of its imports.
Ready(unit) == pkgImports[unit] \subseteq DOMAIN facts

\* A pass the ordered driver may start; it may come back to a visited unit.
RunOrdered == \E unit \in Units : Ready(unit) /\ RunUnit(unit)

\* The first pass over unit: run gets past its already-visited return.
FirstRun(unit) == Ready(unit) /\ ~AlreadyVisited(unit, facts) /\ RunUnit(unit)

\* The states in which a first pass over unit can start.
CanFirstRun(unit) == status = "ok" /\ Ready(unit) /\ ~AlreadyVisited(unit, facts)

\* The start of a first pass over unit, as the call record shows it. A step
\* of NextOrdered is a StartFirst(unit) step exactly if it is a
\* FirstRun(unit) step (FirstRunStarts), and both are enabled in the
\* CanFirstRun(unit) states.
StartFirst(unit) ==
    /\ CanFirstRun(unit)
    /\ last' = [NoCall EXCEPT !.op = "run", !.recv = unit, !.visited = FALSE]

NextOrdered == RunOrdered

\* The driver eventually analyses every package whose imports are analysed.
FairOrdered == \A unit \in Units : WF_last(StartFirst(unit))

SpecOrdered == InitRun /\ [][NextOrdered]_vars /\ FairOrdered

\* ---------------------------------------------- ImportGraph state machine
\* The labels with their first ids, after a call that left the graph g.
FirstIDs(first, g, imps) ==
    [l \in DOMAIN first \cup (imps \cap DOMAIN g.importToID) |->
        IF l \in DOMAIN first THEN first[l] ELSE g.importToID[l]]

CallAddNode ==
    \E imp \in Labels :
        LET r == AddNode(ig, imp)
        IN  /\ status = "ok"
            /\ icalls.n < MaxCalls
            /\ ig' = r.g
            /\ icalls' = [icalls EXCEPT !.n = @ + 1,
                                        !.seen = @ \cup {imp},
                                        !.first = FirstIDs(@, r.g, {imp})]
            /\ ilast' = [NoICall EXCEPT !.op = "AddNode", !.from = imp, !.id = r.id]
            /\ UNCHANGED <<libVars, runVars>>

CallUpdateEdge ==
    \E imp1, imp2 \in Labels :
        LET r == UpdateEdge(ig, imp1, imp2)
            c == <<imp1, imp2>>
        IN  /\ status = "ok"
            /\ icalls.n < MaxCalls
            /\ ig' = r.g
            /\ status' = r.status
            /\ icalls' = [icalls EXCEPT
                            !.n = @ + 1,
                            !.seen = @ \cup {imp1, imp2},
                            !.updates = Put(@, c, IF c \in DOMAIN @ THEN @[c] + 1 ELSE 1),
                            !.first = FirstIDs(@, r.g, {imp1, imp2})]
            /\ ilast' = [NoICall EXCEPT !.op = "UpdateEdge", !.from = imp1, !.to = imp2]
            /\ UNCHANGED <<heap, G, last, runVars>>

\* What network.PageRank(g.g, 0.85, 0.0001) may return: a score for the id of
\* every node; on a graph that no call changed since the last Centrality,
\* the scores of that call.
PageRank ==
    IF ilast.op = "Centrality" /\ ilast.ranked THEN {ilast.centrality}
    ELSE [ig.nodes -> ScoreValues]

CallCentrality ==
    \E centrality \in PageRank, order \in Orders(ig.nodes) :
        LET r == Centrality(ig, centrality, order)
        IN  /\ status = "ok"
            /\ ilast' = [NoICall EXCEPT !.op = "Centrality", !.imps = r.imps,
                                        !.scores = r.scores,
                                        !.centrality = IF r.ranked THEN centrality ELSE <<>>,
                                        !.ranked = r.ranked]
            /\ UNCHANGED <<libVars, runVars, ig, icalls>>

InitImport ==
    /\ NoRun
    /\ NoImport
    /\ heap = <<>>
    /\ G = [n \in GraphNames |-> Graph("", TRUE, {})]
    /\ status = "ok"
    /\ last = NoCall

NextImport ==
    \/ CallAddNode
    \/ CallUpdateEdge
    \/ CallCentrality

SpecImport == InitImport /\ [][NextImport]_vars

\* ------------------------------------------------------------ properties
\* The weight of the edge a graph stores under key k.
WeightOf(f, h, k) == h[f.Edges[k]].EdgeWeight

\* The step is a call n.Add(o) that returned.
AddReturned(n, o) ==
    last'.op = "Add" /\ last'.recv = n /\ last'.other = o /\ status' = "ok"

\* The step is a call n.AddEdge(p).
AddEdgeCalled(n, p) ==
    last'.op = "AddEdge" /\ last'.recv = n /\ last'.edge = p /\ p \in DOMAIN heap

\* The units reachable from the units of S along imports, S included.
RECURSIVE Reach(_)
Reach(S) ==
    LET n == S \cup UNION {pkgImports[u] : u \in S}
    IN  IF n = S THEN S ELSE Reach(n)

\* The import pairs <<c, d>> with c reachable from unit.
ReachableImports(unit) ==
    {cd \in Units \X Units : cd[1] \in Reach({unit}) /\ cd[2] \in pkgImports[cd[1]]}

Diamond ==
    [u \in Units |-> IF u = "Root" THEN {"X", "Y"}
                     ELSE IF u \in {"X", "Y"} THEN {"Shared"} ELSE {}]

\* C1: once the root unit's fragment is finalized it holds exactly one edge
\* c->d, in container c and of weight 1, for every unit c reachable from the
\* root and every direct import d of c, and no other edge; the lines printed
\* for the root are these edges, each once.
C1_RootFragmentExact ==
    rootPkg \in DOMAIN facts =>
        LET f == facts[rootPkg]
            want == ReachableImports(rootPkg)
        IN  /\ DOMAIN f.Edges = {EdgeKey(cd[1], cd[1] \o "->" \o cd[2]) : cd \in want}
            /\ \A k \in DOMAIN f.Edges :
                   LET e == heap[f.Edges[k]]
                   IN  /\ e.type = EdgeTypeDirected
                       /\ e.EdgeKey = k
                       /\ e.EdgeWeight = 1
                       /\ k.container = e.nodes[1]
                       /\ <<e.nodes[1], e.nodes[2]>> \in want
            /\ Len(out) = Cardinality(want)
            /\ {out[i] : i \in DOMAIN out} = want

C1_DiamondFinalized ==
    /\ pkgImports = Diamond
    /\ rootPkg = "Root"
    /\ status = "ok"
    /\ "Root" \in DOMAIN facts
    /\ Len(out) = 4

\* C2 as stated: a returning Add(other) without addedContainers overlap
\* leaves the receiver with the union of the key sets, Size grown by the
\* number of new keys, summed weights on shared keys and each side's weight
\* on the other keys.
MergedAsUnion(f, g, f2) ==
    /\ DOMAIN f2.Edges = DOMAIN f.Edges \cup DOMAIN g.Edges
    /\ Size(f2) = Size(f) + Cardinality(DOMAIN g.Edges \ DOMAIN f.Edges)
    /\ \A k \in DOMAIN f2.Edges :
           WeightOf(f2, heap', k) =
               IF k \in DOMAIN f.Edges /\ k \in DOMAIN g.Edges
               THEN WeightOf(f, heap, k) + WeightOf(g, heap, k)
               ELSE IF k \in DOMAIN f.Edges THEN WeightOf(f, heap, k)
               ELSE WeightOf(g, heap, k)

NoOverlap(f, g) == f.AddedContainers \cap g.AddedContainers = {}

OwnsItsEdges(g) ==
    g.AddedContainers = {} \/ \A k \in DOMAIN g.Edges : k.container \in g.AddedContainers

C3_SecondInsertAccumulates ==
    [][\A n \in GraphNames, p \in DOMAIN heap :
          LET e == heap[p]
              k == e.EdgeKey
          IN  (/\ AddEdgeCalled(n, p)
               /\ e.type = EdgeTypeDirected /\ e.EdgeWeight = 1
               /\ k \in DOMAIN G[n].Edges
               /\ heap[G[n].Edges[k]].type = EdgeTypeDirected
               /\ WeightOf(G[n], heap, k) = 1)
              => /\ status' = "ok"
                 /\ last'.existed
                 /\ DOMAIN G'[n].Edges = DOMAIN G[n].Edges
                 /\ G'[n].Edges[k] = p
                 /\ WeightOf(G'[n], heap', k) = 2]_vars

C3_InsertedTwice ==
    /\ last.op = "AddEdge" /\ last.existed /\ status = "ok"
    /\ heap[last.edge].type = EdgeTypeDirected
    /\ heap[last.edge].EdgeWeight = 2
    /\ G[last.recv].Edges[heap[last.edge].EdgeKey] = last.edge

\* The fragment's addedContainers are non-empty and all held by the receiver.
Redundant(f, g) ==
    g.AddedContainers # {} /\ g.AddedContainers \subseteq f.AddedContainers

\* C4: Add(F) with F.addedContainers non-empty and all in the receiver's
\* addedContainers leaves the receiver as it was: edges, weights,
\* addedContainers, Size() and Order().
C4_RedundantAddIsNoOp ==
    [][\A n, o \in GraphNames :
          AddReturned(n, o) /\ Redundant(G[n], G[o])
              => /\ G'[n] = G[n]
                 /\ heap' = heap
                 /\ Size(G'[n]) = Size(G[n])
                 /\ Order(G'[n]) = Order(G[n])]_vars

C4_RedundantAdded ==
    /\ last.op = "Add" /\ status = "ok"
    /\ Redundant(G[last.recv], G[last.other])
    /\ last.overlap = -1
    /\ \E k \in DOMAIN G[last.other].Edges : k \notin DOMAIN G[last.recv].Edges

\* C5 as stated: Add(F) with F.addedContainers a non-empty subset of the
\* receiver's returns the number of edges of F.
C5_AsStated ==
    [][\A n, o \in GraphNames :
          AddReturned(n, o) /\ Redundant(G[n], G[o]) => last'.overlap = Size(G[o])]_vars

\* C5, amended: Add(F) with F.addedContainers a non-empty subset of the
\* receiver's returns the sentinel -1, whatever the number of edges of F.
C5_RedundantAddReturnsSentinel ==
    [][\A n, o \in GraphNames :
          AddReturned(n, o) /\ Redundant(G[n], G[o]) => last'.overlap = -1]_vars

C5_SentinelForTwoEdges ==
    /\ last.op = "Add" /\ status = "ok"
    /\ Redundant(G[last.recv], G[last.other])
    /\ Size(G[last.other]) = 2
    /\ last.overlap = -1

C7_BaseEdgeNotInserted ==
    [][\A n \in GraphNames, p \in DOMAIN heap :
          AddEdgeCalled(n, p) /\ heap[p].type = EdgeTypeBase
              => /\ G' = G
                 /\ heap' = heap
                 /\ status' = "ok"
                 /\ ~last'.existed
                 /\ last'.logged = "base"]_vars

C7_BaseOnHeldKey ==
    /\ last.op = "AddEdge" /\ status = "ok"
    /\ heap[last.edge].type = EdgeTypeBase
    /\ heap[last.edge].EdgeKey \in DOMAIN G[last.recv].Edges

VariantClash(f, h, p) ==
    /\ h[p].EdgeKey \in DOMAIN f.Edges
    /\ h[f.Edges[h[p].EdgeKey]].type # h[p].type

C10_VisitedUnitNotReprocessed ==
    [][/\ \A u \in DOMAIN facts : u \in DOMAIN facts' /\ facts'[u] = facts[u]
       /\ (last'.op = "run" /\ last'.recv \in DOMAIN facts)
              => /\ last'.visited
                 /\ facts' = facts
                 /\ heap' = heap
                 /\ out' = out
                 /\ status' = status]_vars

C10_Revisited ==
    /\ last.op = "run" /\ last.visited /\ status = "ok"
    /\ DOMAIN facts[last.recv].Edges # {}

\* The object of the unit's own edge unit -> dep.
OwnEdge(unit, dep) == Ptr("NewDirectedEdge", <<unit, <<unit, dep>>>>, 1)

\* C11: a pass over a unit without a fact, one of whose direct imports has
\* no fact, ends the process with log.Fatal at the first such import (the
\* unit's own edge to exactly one import without a fact was built); no fact
\* is exported and nothing is printed, so a root that halts this way has
\* printed no edge; after the halt no pass runs.
C11_MissingFactIsFatal ==
    [][/\ status = "ok"
       /\ \A u \in Units :
              LET missing == pkgImports[u] \ DOMAIN facts
              IN  (last'.op = "run" /\ last'.recv = u /\ ~last'.visited /\ missing # {})
                  => /\ status' = "fatal"
                     /\ facts' = facts
                     /\ u \notin DOMAIN facts'
                     /\ out' = out
                     /\ (u = rootPkg => out' = <<>>)
                     /\ Cardinality({d \in missing : OwnEdge(u, d) \in DOMAIN heap'}) = 1]_vars

C11_RootHalted ==
    /\ status = "fatal" /\ last.op = "run" /\ last.recv = rootPkg
    /\ Cardinality(pkgImports[rootPkg]) = 2
    /\ Cardinality(pkgImports[rootPkg] \cap DOMAIN facts) = 1
    /\ \E d \in pkgImports[rootPkg] \cap DOMAIN facts :
           /\ DOMAIN facts[d].Edges # {}
           /\ OwnEdge(rootPkg, d) \in DOMAIN heap
    /\ out = <<>>

\* C12: a pass leaves every exported fact as it was: its addedContainers,
\* its edge keys, the object under each key and the weight of that object.
C12_PublishedFragmentFrozen ==
    [][\A u \in DOMAIN facts :
          /\ u \in DOMAIN facts'
          /\ facts'[u].AddedContainers = facts[u].AddedContainers
          /\ DOMAIN facts'[u].Edges = DOMAIN facts[u].Edges
          /\ \A k \in DOMAIN facts[u].Edges :
                 /\ facts'[u].Edges[k] = facts[u].Edges[k]
                 /\ WeightOf(facts'[u], heap', k) = WeightOf(facts[u], heap, k)
                 /\ heap'[facts[u].Edges[k]] = heap[facts[u].Edges[k]]]_vars

\* A unit was processed after two of its imports, one of which imports the
\* other: the edges of the inner one reached the accumulator's Add twice.
C12_FoldedTwice ==
    /\ last.op = "run" /\ ~last.visited /\ status = "ok"
    /\ last.recv \in DOMAIN facts
    /\ \E d, e \in pkgImports[last.recv] :
           /\ e \in pkgImports[d]
           /\ DOMAIN facts[e].Edges # {}
           /\ \A k \in DOMAIN facts[e].Edges :
                  facts[last.recv].Edges[k] = facts[e].Edges[k]

\* C13: no pass merges two edges: the merge adds the weight of the stored
\* edge, at least 1, into the incoming object, so it has not run exactly
\* when every edge object still has the weight 1 it was constructed with;
\* and every edge of every exported fact has weight 1.
C13_NoMergeInDrivingLoop ==
    /\ \A p \in DOMAIN heap : heap[p].EdgeWeight = 1
    /\ \A u \in DOMAIN facts : \A k \in DOMAIN facts[u].Edges :
           /\ WeightOf(facts[u], heap, k) = 1
           /\ heap[facts[u].Edges[k]].EdgeKey = k

C13_DiamondAllPublished ==
    /\ pkgImports = Diamond
    /\ DOMAIN facts = Units
    /\ status = "ok"
    /\ \A u \in {"X", "Y"} :
           facts["Root"].Edges[EdgeKey(u, u \o "->" \o "Shared")]
               = facts[u].Edges[EdgeKey(u, u \o "->" \o "Shared")]

\* The two maps are mutually inverse bijections between the labels seen and
\* the ids of the graph's nodes.
Bijective(g, seen) ==
    /\ DOMAIN g.importToID = seen
    /\ DOMAIN g.idToImport = g.nodes
    /\ \A l \in seen : g.importToID[l] \in g.nodes /\ g.idToImport[g.importToID[l]] = l
    /\ \A id \in g.nodes : g.idToImport[id] \in seen /\ g.importToID[g.idToImport[id]] = id
    /\ \A l1, l2 \in seen : g.importToID[l1] = g.importToID[l2] => l1 = l2
    /\ GraphLen(g) = Cardinality(seen)

\* C14: after every call the two maps are mutually inverse bijections
\* between the labels seen and the node ids, one node per label; AddNode of
\* a label seen before returns the id first given to it and leaves the graph
\* and the maps as they were.
C14_AddNodeIdempotent ==
    [][/\ Bijective(ig', icalls'.seen)
       /\ \A l \in Labels :
              (ilast'.op = "AddNode" /\ ilast'.from = l /\ l \in icalls.seen)
                  => /\ ilast'.id = icalls.first[l]
                     /\ ig' = ig]_vars

C14_SeenLabelAddedAgain ==
    /\ ilast.op = "AddNode" /\ ilast.id = 0
    /\ icalls.n = 3
    /\ GraphLen(ig) = 2
    /\ DOMAIN ig.edges = {<<1, 0>>}

\* The graph holds an edge between the nodes of the two labels.
HasLabelledEdge(g, from, to) ==
    /\ from \in DOMAIN g.importToID
    /\ to \in DOMAIN g.importToID
    /\ <<g.importToID[from], g.importToID[to]>> \in DOMAIN g.edges

\* The weight of that edge, 0 where there is none.
LabelledWeight(g, from, to) ==
    IF HasLabelledEdge(g, from, to)
    THEN g.edges[<<g.importToID[from], g.importToID[to]>>]
    ELSE 0

\* The number of UpdateEdge(from, to) calls made.
Called(calls, from, to) ==
    IF <<from, to>> \in DOMAIN calls.updates THEN calls.updates[<<from, to>>] ELSE 0

\* What C15 says of the pair (from, to) in a step.
EdgeCountsCalls(from, to) ==
    /\ HasLabelledEdge(ig', from, to) <=> Called(icalls', from, to) >= 1
    /\ LabelledWeight(ig', from, to) = Called(icalls', from, to)
    /\ Called(icalls', from, to) >= 1 =>
           {from, to} \subseteq DOMAIN ig'.importToID
               /\ {ig'.importToID[from], ig'.importToID[to]} \subseteq ig'.nodes
    /\ (ilast'.op = "UpdateEdge" /\ <<ilast'.from, ilast'.to>> # <<from, to>>)
           => LabelledWeight(ig', from, to) = LabelledWeight(ig, from, to)

\* C15 as stated: after every UpdateEdge call, for every pair of labels the
\* graph holds the edge exactly when UpdateEdge was called for the pair, its
\* weight is the number of those calls, both labels have nodes, and the call
\* left every other edge's weight as it was.
C15_AsStated ==
    [][\A from, to \in Labels : EdgeCountsCalls(from, to)]_vars

\* The same for the pairs of two different labels, which is what the code
\* does: UpdateEdge(l, l) gives l its node and panics.
C15_DistinctLabels ==
    [][/\ \A from, to \in Labels : from # to => EdgeCountsCalls(from, to)
       /\ (ilast'.op = "UpdateEdge" /\ ilast'.from = ilast'.to)
              => /\ status' = "panic"
                 /\ ig'.edges = ig.edges
                 /\ ilast'.from \in DOMAIN ig'.importToID]_vars

C15_CountedThreeTimes ==
    /\ ilast.op = "UpdateEdge" /\ status = "ok"
    /\ LabelledWeight(ig, "a", "b") = 2
    /\ LabelledWeight(ig, "b", "a") = 1

\* C16: Centrality on a graph without nodes returns two empty lists, does
\* not call PageRank, does not fail and leaves the graph as it was.
C16_EmptyGraphCentrality ==
    [][(ilast'.op = "Centrality" /\ GraphLen(ig) = 0)
          => /\ ilast'.imps = <<>>
             /\ ilast'.scores = <<>>
             /\ ~ilast'.ranked
             /\ status' = "ok"
             /\ ig' = ig]_vars

C16_CalledOnEmpty ==
    /\ ilast.op = "Centrality" /\ status = "ok"
    /\ GraphLen(ig) = 0
    /\ icalls.n = 0
    /\ Len(ilast.imps) = 0 /\ Len(ilast.scores) = 0

\* C17: Centrality on a graph with nodes calls PageRank and returns two
\* lists as long as the graph has nodes; the labels are the labels seen,
\* each once; scores[i] is the score PageRank gave the node of labels[i];
\* no score is followed by a greater one.
C17_CentralityRanksAllLabels ==
    [][(ilast'.op = "Centrality" /\ GraphLen(ig) > 0)
          => LET imps == ilast'.imps
                 scores == ilast'.scores
             IN  /\ ilast'.ranked
                 /\ Len(imps) = GraphLen(ig)
                 /\ Len(scores) = GraphLen(ig)
                 /\ {imps[i] : i \in DOMAIN imps} = icalls.seen
                 /\ \A i, j \in DOMAIN imps : imps[i] = imps[j] => i = j
                 /\ \A i \in DOMAIN imps :
                        /\ imps[i] \in DOMAIN ig.importToID
                        /\ scores[i] = ilast'.centrality[ig.importToID[imps[i]]]
                 /\ \A i \in 1..(Len(scores) - 1) : scores[i] >= scores[i + 1]]_vars

\* Three labels ranked, the last registered first and the other two tied.
C17_RankedWithTie ==
    /\ ilast.op = "Centrality" /\ status = "ok"
    /\ ilast.scores = <<3, 2, 2>>
    /\ ig.importToID[ilast.imps[1]] = 2
    /\ ig.importToID[ilast.imps[2]] = 1
    /\ DOMAIN ig.edges # {}

Constructors == {"NewDirectedEdge", "NewUndirectedEdge", "NewHyperEdge"}

\* C19 as stated: every constructor returns an edge of weight 1, and no edge
\* stored in a graph has a negative weight.
C19_AsStated ==
    [][/\ last'.op \in Constructors => heap'[last'.edge].EdgeWeight = 1
       /\ \A n \in GraphNames : \A k \in DOMAIN G'[n].Edges :
              WeightOf(G'[n], heap', k) >= 0]_vars

\* What the constructors do: NewDirectedEdge returns weight 1, the other two
\* leave the weight at 0; no stored weight is negative.
C19_WeightsAsBuilt ==
    [][/\ last'.op = "NewDirectedEdge" => heap'[last'.edge].EdgeWeight = 1
       /\ last'.op \in {"NewUndirectedEdge", "NewHyperEdge"}
              => heap'[last'.edge].EdgeWeight = 0
       /\ \A n \in GraphNames : \A k \in DOMAIN G'[n].Edges :
              WeightOf(G'[n], heap', k) >= 0]_vars

\* C20 as stated: AddEdge of an object under a key that holds another
\* object merges into the stored object, which stays under the key, and
\* leaves the incoming object as it was; a returning Add(other) leaves
\* other's addedContainers, edge keys, objects and weights as they were.
C20_AsStated ==
    [][/\ \A n \in GraphNames, p \in DOMAIN heap :
              LET k == heap[p].EdgeKey
              IN  (/\ AddEdgeCalled(n, p) /\ status' = "ok"
                   /\ k \in DOMAIN G[n].Edges
                   /\ G[n].Edges[k] # p
                   /\ heap[p].type # EdgeTypeBase)
                  => /\ heap'[p] = heap[p]
                     /\ G'[n].Edges[k] = G[n].Edges[k]
       /\ \A n, o \in GraphNames :
              AddReturned(n, o)
                  => /\ G'[o] = G[o]
                     /\ \A k \in DOMAIN G[o].Edges :
                            WeightOf(G'[o], heap', k) = WeightOf(G[o], heap, k)]_vars

\* The weight a graph stores under key k, 0 where it stores nothing.
StoredWeight(f, h, k) == IF k \in DOMAIN f.Edges THEN WeightOf(f, h, k) ELSE 0

\* C21 as stated, one insertion at a time: on a receiver that alone was
\* ever given edges, AddEdge of a directed edge constructed with weight 1,
\* under a key that is free or holds a directed edge, raises the weight under
\* the key by 1; a returning Add of a bare fragment
\* whose edges are directed and of weight 1 raises the weight under each of
\* its keys by 1 and leaves the other weights as they were.
C21_AsStated ==
    [][\A n \in GraphNames :
          /\ \A p \in DOMAIN heap :
                 LET k == heap[p].EdgeKey
                 IN  (/\ AddEdgeCalled(n, p)
                      /\ p.ctor = "NewDirectedEdge"
                      /\ k \in DOMAIN G[n].Edges
                             => heap[G[n].Edges[k]].type = EdgeTypeDirected
                      /\ \A m \in GraphNames \ {n} : Size(G[m]) = 0)
                     => /\ status' = "ok"
                        /\ WeightOf(G'[n], heap', k) = StoredWeight(G[n], heap, k) + 1
          /\ \A o \in GraphNames :
                 (/\ AddReturned(n, o)
                  /\ G[o].AddedContainers = {}
                  /\ \A k \in DOMAIN G[o].Edges :
                         /\ heap[G[o].Edges[k]].type = EdgeTypeDirected
                         /\ WeightOf(G[o], heap, k) = 1)
                 => \A k \in DOMAIN G'[n].Edges :
                        WeightOf(G'[n], heap', k) =
                            StoredWeight(G[n], heap, k)
                                + (IF k \in DOMAIN G[o].Edges THEN 1 ELSE 0)]_vars

\* The imports of a chain: each unit imports the next.
Chain ==
    [u \in Units |-> IF u = "Root" THEN {"X"}
                     ELSE IF u = "X" THEN {"Y"}
                     ELSE IF u = "Y" THEN {"Shared"} ELSE {}]

\* C22: every exported fact is closed: its addedContainers are the units
\* reachable from its unit; every edge is a directed edge stored under its
\* own key, whose container is one of the addedContainers and the edge's
\* source; and for every container in addedContainers the edge to each of
\* its direct imports is there.
C22_PublishedFragmentClosed ==
    \A u \in DOMAIN facts :
        LET f == facts[u]
        IN  /\ f.AddedContainers = Reach({u})
            /\ \A k \in DOMAIN f.Edges :
                   LET e == heap[f.Edges[k]]
                   IN  /\ e.type = EdgeTypeDirected
                       /\ e.EdgeKey = k
                       /\ k.container \in f.AddedContainers
                       /\ k.container = e.nodes[1]
            /\ \A c \in f.AddedContainers : \A d \in pkgImports[c] :
                   /\ EdgeKey(c, c \o "->" \o d) \in DOMAIN f.Edges
                   /\ heap[f.Edges[EdgeKey(c, c \o "->" \o d)]].nodes = <<c, d>>

C22_ChainPublished ==
    /\ pkgImports = Chain
    /\ DOMAIN facts = Units
    /\ status = "ok"
    /\ facts["Root"].AddedContainers = Units
    /\ Size(facts["Root"]) = 3
    /\ Size(facts["X"]) = 2

\* What a fact holds, apart from which objects hold it: its addedContainers
\* and the weight under each edge key.
Content(f, h) ==
    [AddedContainers |-> f.AddedContainers,
     weights |-> [k \in DOMAIN f.Edges |-> WeightOf(f, h, k)]]

\* The same for the fragment of a unit as the import graph alone fixes it.
ContentOf(u) ==
    [AddedContainers |-> Reach({u}),
     weights |-> [k \in {EdgeKey(cd[1], cd[1] \o "->" \o cd[2]) :
                            cd \in ReachableImports(u)} |-> 1]]

\* Root imports X and Y, X imports Y: folding X first finds nothing new in
\* Y's fact, folding Y first finds Y's edges again in X's fact.
Nested ==
    [u \in Units |-> IF u = "Root" THEN {"X", "Y"}
                     ELSE IF u = "X" THEN {"Y"}
                     ELSE IF u = "Y" THEN {"Shared"} ELSE {}]

\* C23: whatever the order in which the units were visited, the imports of
\* a unit folded in and the edges of a fact ranged over, the fact exported
\* for a unit has the addedContainers, the edge keys and the weights that
\* the import graph fixes for it.
C23_FragmentIndependentOfOrder ==
    \A u \in DOMAIN facts : Content(facts[u], heap) = ContentOf(u)

C23_NestedPublished ==
    /\ pkgImports = Nested
    /\ DOMAIN facts = Units
    /\ status = "ok"
    /\ Size(facts["Root"]) = 4
    /\ WeightOf(facts["Root"], heap, EdgeKey("Y", "Y->Shared")) = 1

\* The printed lines are the import pairs reachable from the root, each once.
Emitted ==
    /\ Len(out) = Cardinality(ReachableImports(rootPkg))
    /\ {out[i] : i \in 1..Len(out)} = ReachableImports(rootPkg)

\* The steps fairness is stated for are the first passes.
FirstRunStarts == [][\A u \in Units : StartFirst(u) <=> FirstRun(u)]_vars

\* C24: when the driver starts a unit only after all its direct imports have
\* published and eventually starts every unit, no pass ever ends fatally or
\* panics, every unit eventually publishes its fragment, and the root's edges
\* are eventually printed, each exactly once, and nothing is printed after.
C24_OrderedRunCompletes ==
    /\ [](status = "ok")
    /\ \A u \in Units : <>[](u \in DOMAIN facts)
    /\ [](out = <<>> \/ Emitted)
    /\ <>[](rootPkg \in DOMAIN facts /\ Emitted)

\* Every unit of the diamond has published, the root's four edges are
\* printed, and the driver has come back to a visited unit.
C24_DiamondCompleted ==
    /\ pkgImports = Diamond
    /\ rootPkg = "Root"
    /\ DOMAIN facts = Units
    /\ status = "ok"
    /\ Len(out) = 4
    /\ last.op = "run" /\ last.visited

\* C25: two calls of Centrality on the same graph, for which PageRank gives
\* the same scores, return the same ordered label list, labels of equal
\* score included, whatever the order in which the score map is ranged over.
C25_AsStated ==
    [][(/\ ilast.op = "Centrality" /\ ilast.ranked
        /\ ilast'.op = "Centrality"
        /\ ig' = ig
        /\ ilast'.centrality = ilast.centrality)
       => ilast'.imps = ilast.imps]_vars

\* The nodes of the edges stored in f.
Endpoints(f, h) ==
    UNION {{h[f.Edges[k]].nodes[i] : i \in 1..Len(h[f.Edges[k]].nodes)} :
               k \in DOMAIN f.Edges}

\* C26: in every graph built by AddEdge and Add, each node of each stored
\* edge is a key of Nodes, so Order() is at least the number of distinct
\* endpoints of the stored edges.
C26_AsStated ==
    \A n \in GraphNames :
        /\ Endpoints(G[n], heap) \subseteq G[n].Nodes
        /\ Order(G[n]) >= Cardinality(Endpoints(G[n], heap))

\* C27: f.Add(o) on a receiver whose AddedContainers was never initialised
\* completes normally whatever o is, o with a non-empty AddedContainers
\* included, and afterwards f's AddedContainers holds every container of o.
C27_AsStated ==
    [][\A o \in GraphNames :
          (/\ last'.op = "Add" /\ last'.recv = "f" /\ last'.other = o
           /\ G["f"].acNil)
          => /\ status' = "ok"
             /\ G[o].AddedContainers \subseteq G'["f"].AddedContainers]_vars

====
